---- MODULE Spec2Model ----
(***************************************************************************)
(* Review sentiment analyzer: the local keyword scorer (analyzeSentiment,  *)
(* src/app.js) and the business-action table (determineBusinessAction,     *)
(* src/unnamed/part_001).                                                  *)
(*                                                                         *)
(* Representation.                                                         *)
(*  - A string is a sequence of atoms.  An atom is an indivisible run of   *)
(*    characters: a run of word characters ("good", "This"), one           *)
(*    punctuation character ("!", "?", ",", "-") or one whitespace         *)
(*    character (" ").  No two word atoms used here concatenate to a       *)
(*    lexicon word, and no contrast word straddles an atom boundary.       *)
(*  - The three scores are held in tenths (3 is 30, 0.5 is 5, 0.1 is 1),   *)
(*    so every value the loop can produce is an integer.  The JavaScript   *)
(*    doubles differ from these exact values only in neutralScore (the     *)
(*    repeated += 0.1); for fewer than 40 such additions the double is     *)
(*    never below the exact value, so every comparison of neutralScore     *)
(*    with the (exact) positiveScore / negativeScore agrees with the       *)
(*    comparison made here.                                                *)
(*  - A confidence is an exact rational [num, den], den > 0.               *)
(***************************************************************************)
EXTENDS Integers, Sequences, FiniteSets, TLC

VARIABLES reviewType, reviewText, positiveScore, negativeScore, neutralScore,
          classification, decision, thrown, pc,
          apiResult, sentimentDisplay, actionDisplay, errorMessage,
          reviews, loadSettled, tsvResponse, apiTokenInput, apiToken, localStorage,
          analyzeBtnDisabled, loadingShown, errorVisible, errorSeq, timers,
          analyses, currentSelectedReview, requests, auditLog, clicks

\* the scorer's argument, locals and return value
scorerVars == <<reviewType, reviewText, positiveScore, negativeScore, neutralScore,
                classification>>

\* the API response and the page elements processAndDisplayResult writes
apiVars == <<apiResult, sentimentDisplay, actionDisplay, errorMessage>>

\* the globals, page elements, storage, timers and requests of the
\* business-action page (src/unnamed/part_001)
pageVars == <<reviews, loadSettled, tsvResponse, apiTokenInput, apiToken, localStorage,
              analyzeBtnDisabled, loadingShown, errorVisible, errorSeq, timers,
              analyses, currentSelectedReview, requests, auditLog, clicks>>

vars == <<reviewType, reviewText, positiveScore, negativeScore, neutralScore,
          classification, decision, thrown, pc,
          apiResult, sentimentDisplay, actionDisplay, errorMessage,
          reviews, loadSettled, tsvResponse, apiTokenInput, apiToken, localStorage,
          analyzeBtnDisabled, loadingShown, errorVisible, errorSeq, timers,
          analyses, currentSelectedReview, requests, auditLog, clicks>>

(***************************************************************************)
(* Bounds                                                                  *)
(***************************************************************************)
\* longest generated review text, in atoms
MaxLen == 4
\* generated confidences are k / GridDen, k in 0..GridDen
GridDen == 20
\* clicks on the analyze button in one run of the page
MaxClicks == 2
\* the random index drawn by a click is at most MaxPick
MaxPick == 2

(***************************************************************************)
(* Lexicon (src/app.js 120-158)                                            *)
(***************************************************************************)
Word(w) == <<w>>

positiveKeywords ==
    { Word(w) : w \in
        { "excellent", "outstanding", "amazing", "wonderful", "fantastic", "superb",
          "perfect", "brilliant", "exceptional", "phenomenal", "awesome", "magnificent",
          "love", "adore", "favorite", "best", "great", "good",
          "nice", "pleased", "satisfied", "happy", "enjoy", "like", "decent",
          "recommend", "worth", "valuable", "helpful", "useful", "effective",
          "quality", "durable", "reliable", "efficient", "fast", "quick", "easy",
          "comfortable", "beautiful", "stylish", "attractive" } }
    \cup { <<"well", "-", "made">> }

negativeKeywords ==
    { Word(w) : w \in
        { "terrible", "horrible", "awful", "worst", "disgusting", "disappointing",
          "hate", "regret", "waste", "rubbish", "garbage", "useless", "broken",
          "bad", "poor", "mediocre", "average", "okay", "unhappy",
          "problem", "issue", "fault", "defect", "flaw", "disadvantage",
          "cheap", "flimsy", "slow", "difficult", "complicated", "uncomfortable",
          "expensive", "overpriced", "noisy", "heavy", "small", "big" } }
    \cup { <<"so", "-", "so">> }

neutralKeywords ==
    { Word(w) : w \in
        { "average", "standard", "normal", "regular", "typical", "ordinary",
          "adequate", "sufficient", "acceptable", "moderate", "fair", "reasonable" } }

negationWords ==
    { Word(w) : w \in { "not", "no", "never", "none", "nothing", "without" } }

intensifiers ==
    { Word(w) : w \in { "very", "really", "extremely", "absolutely", "totally" } }

(***************************************************************************)
(* String primitives                                                       *)
(***************************************************************************)
\* /\s/
IsWhitespace(a) == a \in { " ", "\t", "\n" }

\* the characters String.prototype.replace(/[^\w\s]/g, '') removes
IsPunctuation(a) == a \in { "!", "?", ",", ".", "-", "'" }

\* typeof of the values that are not strings
NonStringTypes == { "number", "boolean", "undefined", "object" }

\* the argument coerced with String(...) before use: nothing is thrown
toLowerCaseCoerces(type) == FALSE

\* reviewText.toLowerCase() on a value that is not a string:
\* "reviewText.toLowerCase is not a function" (TypeError)
toLowerCaseThrows(type) == type # "string"

\* String.prototype.toLowerCase, atom by atom
lowerAtom(a) ==
    CASE a = "This" -> "this"
      [] a = "It"   -> "it"
      [] a = "Good" -> "good"
      [] a = "NOT"  -> "not"
      [] a = "BUT"  -> "but"
      [] OTHER      -> a

toLowerCase(s) == [i \in 1..Len(s) |-> lowerAtom(s[i])]

\* String.prototype.split(/\s+/): a run of whitespace separates two tokens;
\* leading / trailing whitespace and the empty string yield empty tokens.
RECURSIVE splitFrom(_, _, _, _, _)
splitFrom(s, i, cur, inWs, acc) ==
    IF i > Len(s) THEN Append(acc, cur)
    ELSE IF IsWhitespace(s[i])
         THEN IF inWs THEN splitFrom(s, i + 1, <<>>, TRUE, acc)
                      ELSE splitFrom(s, i + 1, <<>>, TRUE, Append(acc, cur))
         ELSE splitFrom(s, i + 1, Append(cur, s[i]), FALSE, acc)

split(s) == splitFrom(s, 1, <<>>, FALSE, <<>>)

\* words[i].replace(/[^\w\s]/g, '')
cleanWord(token) == SelectSeq(token, LAMBDA a : ~IsPunctuation(a))

\* (reviewText.match(/c/g) || []).length
matchCount(s, c) == Cardinality({ i \in 1..Len(s) : s[i] = c })

\* the atoms that contain w as a substring
atomsContaining(w) ==
    CASE w = "but"      -> { "but", "button" }
      [] w = "however"  -> { "however" }
      [] w = "although" -> { "although" }
      [] OTHER          -> { w }

\* String.prototype.includes(w)
includes(s, w) == \E i \in 1..Len(s) : s[i] \in atomsContaining(w)

(***************************************************************************)
(* Exact rationals [num, den], den > 0                                     *)
(***************************************************************************)
Rat(n, d) == [num |-> n, den |-> d]

\* a < b, a <= b, a === b on numbers
RatLt(a, b) == a.num * b.den < b.num * a.den
RatLe(a, b) == a.num * b.den <= b.num * a.den
RatEq(a, b) == a.num * b.den = b.num * a.den

\* Math.max(a, b), Math.min(a, b)
RatMax(a, b) == IF RatLt(a, b) THEN b ELSE a
RatMin(a, b) == IF RatLt(b, a) THEN b ELSE a

\* Math.max(a, b, c), Math.abs(x) on the scores
Max3(a, b, c) == IF a >= b /\ a >= c THEN a ELSE IF b >= c THEN b ELSE c
Abs(x) == IF x < 0 THEN -x ELSE x

(***************************************************************************)
(* analyzeSentiment (src/app.js 115-258).  Scores are in tenths.           *)
(***************************************************************************)
Scores(p, n, u) == [positiveScore |-> p, negativeScore |-> n, neutralScore |-> u]

\* the negation test with the index guard off by one
isNegatedOffByOne(words, i) == i > 2 /\ words[i - 1] \in negationWords

\* if (i > 0 && negationWords.includes(words[i-1])) isNegated = true
isNegated(words, i) == i > 1 /\ words[i - 1] \in negationWords

\* if (i > 0 && intensifiers.includes(words[i-1])) intensity = 2
intensity(words, i) == IF i > 1 /\ words[i - 1] \in intensifiers THEN 2 ELSE 1

\* the if / else-if chain over the three dictionaries
dictionaryScore(word, negated) ==
    IF word \in positiveKeywords THEN (IF negated THEN -20 ELSE 30)
    ELSE IF word \in negativeKeywords THEN (IF negated THEN 20 ELSE -30)
    ELSE IF word \in neutralKeywords THEN 5
    ELSE 0

\* wordScore after "wordScore *= intensity"
wordScore(words, i) ==
    dictionaryScore(cleanWord(words[i]), isNegated(words, i)) * intensity(words, i)

\* "Add to appropriate score" for one value of wordScore
addWordScore(s, ws) ==
    IF ws > 0 THEN [s EXCEPT !.positiveScore = @ + ws]
    ELSE IF ws < 0 THEN [s EXCEPT !.negativeScore = @ + Abs(ws)]
    ELSE [s EXCEPT !.neutralScore = @ + 1]

\* one iteration of the for loop
scoreWord(words, i, s) == addWordScore(s, wordScore(words, i))

\* for (let i = 0; i < words.length; i++) { ... }
RECURSIVE scoreWordsFrom(_, _, _)
scoreWordsFrom(words, i, s) ==
    IF i > Len(words) THEN s
    ELSE scoreWordsFrom(words, i + 1, scoreWord(words, i, s))

\* the loop with neutralScore starting at 0 like the other two scores
loopScoresNoBaseline(text) == scoreWordsFrom(split(toLowerCase(text)), 1, Scores(0, 0, 0))

\* the scores when the loop ends; neutralScore starts at 1
loopScores(text) == scoreWordsFrom(split(toLowerCase(text)), 1, Scores(0, 0, 10))

\* the punctuation emphasis applied from the first '!' on
exclamationBonusAny(text, s) ==
    IF matchCount(text, "!") > 0
    THEN LET s1 == IF s.positiveScore > s.negativeScore
                   THEN [s EXCEPT !.positiveScore = @ + 20] ELSE s
         IN  IF s1.negativeScore > s1.positiveScore
             THEN [s1 EXCEPT !.negativeScore = @ + 20] ELSE s1
    ELSE s

\* the punctuation emphasis applied once per '!'
exclamationBonusPerMark(text, s) ==
    IF matchCount(text, "!") > 1
    THEN LET bonus == 20 * matchCount(text, "!")
             s1 == IF s.positiveScore > s.negativeScore
                   THEN [s EXCEPT !.positiveScore = @ + bonus] ELSE s
         IN  IF s1.negativeScore > s1.positiveScore
             THEN [s1 EXCEPT !.negativeScore = @ + bonus] ELSE s1
    ELSE s

\* "Check for punctuation emphasis"
exclamationBonus(text, s) ==
    IF matchCount(text, "!") > 1
    THEN LET s1 == IF s.positiveScore > s.negativeScore
                   THEN [s EXCEPT !.positiveScore = @ + 20] ELSE s
         IN  IF s1.negativeScore > s1.positiveScore
             THEN [s1 EXCEPT !.negativeScore = @ + 20] ELSE s1
    ELSE s

\* the question-mark adjustment applied once per '?'
questionBonusPerMark(text, s) ==
    [s EXCEPT !.neutralScore = @ + 10 * matchCount(text, "?")]

\* "Check for question marks (uncertainty)"
questionBonus(text, s) ==
    IF matchCount(text, "?") > 0 THEN [s EXCEPT !.neutralScore = @ + 10] ELSE s

\* "Check for contrast words"
contrastBonus(text, s) ==
    LET textLower == toLowerCase(text)
    IN  IF includes(textLower, "but") \/ includes(textLower, "however")
           \/ includes(textLower, "although")
        THEN [s EXCEPT !.neutralScore = @ + 10] ELSE s

\* the three scores when "Determine final sentiment" is reached
finalScores(text) ==
    contrastBonus(text, questionBonus(text, exclamationBonus(text, loopScores(text))))

\* the final sentiment with the close-score test written "<= 2"
sentimentOfInclusive(s) ==
    LET maxScore == Max3(s.positiveScore, s.negativeScore, s.neutralScore)
    IN  IF maxScore = s.neutralScore \/ Abs(s.positiveScore - s.negativeScore) <= 20
        THEN "neutral"
        ELSE IF s.positiveScore = maxScore THEN "positive"
        ELSE "negative"

\* "Determine final sentiment"
sentimentOf(s) ==
    LET maxScore == Max3(s.positiveScore, s.negativeScore, s.neutralScore)
    IN  IF maxScore = s.neutralScore \/ Abs(s.positiveScore - s.negativeScore) < 20
        THEN "neutral"
        ELSE IF s.positiveScore = maxScore THEN "positive"
        ELSE "negative"

labelOf(sentiment) ==
    CASE sentiment = "neutral"  -> "NEUTRAL"
      [] sentiment = "positive" -> "POSITIVE"
      [] OTHER                  -> "NEGATIVE"

\* the confidence with the neutral branch starting from 0.6 like the others
rawConfidenceNeutralBase(s, sentiment) ==
    LET totalScore == s.positiveScore + s.negativeScore + s.neutralScore
    IN  IF sentiment = "neutral"
        THEN Rat(6 * totalScore + 3 * s.neutralScore, 10 * totalScore)
        ELSE IF sentiment = "positive"
        THEN Rat(6 * totalScore + 3 * s.positiveScore, 10 * totalScore)
        ELSE Rat(6 * totalScore + 3 * s.negativeScore, 10 * totalScore)

\* the confidence with 0.5 as the base of every branch
rawConfidenceSharedBase(s, sentiment) ==
    LET totalScore == s.positiveScore + s.negativeScore + s.neutralScore
    IN  IF sentiment = "neutral"
        THEN Rat(5 * totalScore + 3 * s.neutralScore, 10 * totalScore)
        ELSE IF sentiment = "positive"
        THEN Rat(5 * totalScore + 3 * s.positiveScore, 10 * totalScore)
        ELSE Rat(5 * totalScore + 3 * s.negativeScore, 10 * totalScore)

\* the confidence with the share weighted 0.4 instead of 0.3
rawConfidenceWeight(s, sentiment) ==
    LET totalScore == s.positiveScore + s.negativeScore + s.neutralScore
    IN  IF sentiment = "neutral"
        THEN Rat(5 * totalScore + 4 * s.neutralScore, 10 * totalScore)
        ELSE IF sentiment = "positive"
        THEN Rat(6 * totalScore + 4 * s.positiveScore, 10 * totalScore)
        ELSE Rat(6 * totalScore + 4 * s.negativeScore, 10 * totalScore)

\* "Calculate confidence score": base + (score / totalScore) * 0.3
rawConfidence(s, sentiment) ==
    LET totalScore == s.positiveScore + s.negativeScore + s.neutralScore
    IN  IF sentiment = "neutral"
        THEN Rat(5 * totalScore + 3 * s.neutralScore, 10 * totalScore)
        ELSE IF sentiment = "positive"
        THEN Rat(6 * totalScore + 3 * s.positiveScore, 10 * totalScore)
        ELSE Rat(6 * totalScore + 3 * s.negativeScore, 10 * totalScore)

\* Math.min(Math.max(confidence, 0.5), 0.95) with the upper bound mistyped
clampConfidenceTypo(c) == RatMin(RatMax(c, Rat(1, 2)), Rat(95, 1000))

\* Math.min(Math.max(confidence, 0.5), 0.95)
clampConfidence(c) == RatMin(RatMax(c, Rat(1, 2)), Rat(95, 100))

\* the value analyzeSentiment returns for a string
analyzeSentiment(text) ==
    LET s         == finalScores(text)
        sentiment == sentimentOf(s)
    IN  [label     |-> labelOf(sentiment),
         score     |-> clampConfidence(rawConfidence(s, sentiment)),
         sentiment |-> sentiment]

(***************************************************************************)
(* determineBusinessAction (src/unnamed/part_001 133-173)                  *)
(***************************************************************************)
Decision(code, message, color, ic) ==
    [actionCode |-> code, uiMessage |-> message, uiColor |-> color, icon |-> ic]

\* step 1 with the NEGATIVE branch not inverted
normalizedScoreNotInverted(confidence, label) ==
    IF label = "POSITIVE" THEN confidence
    ELSE IF label = "NEGATIVE" THEN confidence
    ELSE Rat(1, 2)

\* step 1 with the confidence as the default instead of 0.5
normalizedScoreNoDefault(confidence, label) ==
    IF label = "NEGATIVE" THEN Rat(confidence.den - confidence.num, confidence.den)
    ELSE confidence

\* step 1: normalizedScore = 0.5; confidence for POSITIVE, 1.0 - confidence
\* for NEGATIVE
normalizedScore(confidence, label) ==
    IF label = "POSITIVE" THEN confidence
    ELSE IF label = "NEGATIVE" THEN Rat(confidence.den - confidence.num, confidence.den)
    ELSE Rat(1, 2)

\* the three decision objects (uiMessage without its leading emoji)
OfferCoupon ==
    Decision("OFFER_COUPON",
             "We're sorry. Please accept this 50% discount coupon for your next purchase!",
             "#ef4444", "fa-ticket")

RequestFeedback ==
    Decision("REQUEST_FEEDBACK",
             "Thank you for your feedback! Could you tell us more about how we can improve?",
             "#6b7280", "fa-clipboard-list")

AskReferral ==
    Decision("ASK_REFERRAL",
             "Glad you liked it! Refer a friend and earn rewards.",
             "#3b82f6", "fa-share-alt")

\* no decision object (undefined)
NoDecision == Decision("undefined", "", "", "")

\* step 2 with "normalizedScore < 0.4" as the first test
businessRuleExclusive(normalized) ==
    IF RatLt(normalized, Rat(4, 10)) THEN OfferCoupon
    ELSE IF RatLt(normalized, Rat(7, 10)) THEN RequestFeedback
    ELSE AskReferral

\* step 2 with "else if (normalizedScore > 0.7)" as the last branch
businessRuleGap(normalized) ==
    IF RatLe(normalized, Rat(4, 10)) THEN OfferCoupon
    ELSE IF RatLt(normalized, Rat(7, 10)) THEN RequestFeedback
    ELSE IF RatLt(Rat(7, 10), normalized) THEN AskReferral
    ELSE NoDecision

\* step 2: the if / else-if / else over normalizedScore
businessRule(normalized) ==
    IF RatLe(normalized, Rat(4, 10)) THEN OfferCoupon
    ELSE IF RatLt(normalized, Rat(7, 10)) THEN RequestFeedback
    ELSE AskReferral

determineBusinessAction(confidence, label) ==
    businessRule(normalizedScore(confidence, label))

(***************************************************************************)
(* processAndDisplayResult (src/unnamed/part_001 271-325)                  *)
(***************************************************************************)
\* JSON values: a number, a string, null, or an absent member (undefined)
JsNum(r) == [type |-> "number", num |-> r, str |-> ""]
JsStr(t) == [type |-> "string", num |-> Rat(0, 1), str |-> t]
JsNull == [type |-> "null", num |-> Rat(0, 1), str |-> ""]
JsUndefined == [type |-> "undefined", num |-> Rat(0, 1), str |-> ""]

\* ToBoolean: 0, "", null and undefined are falsy
truthy(v) ==
    CASE v.type = "number" -> v.num.num # 0
      [] v.type = "string" -> v.str # ""
      [] OTHER             -> FALSE

\* ToNumber: null is 0, a numeric string is its value, any other string and
\* undefined are NaN
toNumber(v) ==
    CASE v.type = "number" -> [nan |-> FALSE, num |-> v.num]
      [] v.type = "null"   -> [nan |-> FALSE, num |-> Rat(0, 1)]
      [] v.type = "string" /\ v.str = "0.9" -> [nan |-> FALSE, num |-> Rat(9, 10)]
      [] v.type = "string" /\ v.str = "0.3" -> [nan |-> FALSE, num |-> Rat(3, 10)]
      [] v.type = "string" /\ v.str = ""    -> [nan |-> FALSE, num |-> Rat(0, 1)]
      [] OTHER             -> [nan |-> TRUE, num |-> Rat(0, 1)]

\* score > 0.5 (false for NaN)
aboveHalf(v) == ~toNumber(v).nan /\ RatLt(Rat(1, 2), toNumber(v).num)

\* String.prototype.toUpperCase
toUpperCase(t) ==
    CASE t = "positive" -> "POSITIVE"
      [] t = "negative" -> "NEGATIVE"
      [] t = "neutral"  -> "NEUTRAL"
      [] t = "Positive" -> "POSITIVE"
      [] t = "label_1"  -> "LABEL_1"
      [] OTHER          -> t

\* the text an interpolated value contributes to the element
display(v) ==
    CASE v.type = "string" -> v.str
      [] v.type = "number" -> "5"
      [] OTHER             -> v.type

\* the locals sentiment, label, score and whether the catch block ran
Parsed(sentiment, label, score, caught) ==
    [sentiment |-> sentiment, label |-> label, score |-> score, caught |-> caught]

\* "Значения по умолчанию (нейтральный)"
DefaultParsed(caught) == Parsed("neutral", "NEUTRAL", JsNum(Rat(1, 2)), caught)

\* the try block with the final else not resetting the label
parseApiResultNoRelabel(r) ==
    IF r.isArray /\ r.length > 0 /\ r.firstIsArray /\ r.firstLength > 0
       /\ r.dataIsObject /\ truthy(r.label) /\ r.score.type # "undefined"
    THEN IF r.label.type # "string"
         THEN DefaultParsed(TRUE)
         ELSE LET label == toUpperCase(r.label.str)
              IN  IF label = "POSITIVE" /\ aboveHalf(r.score)
                  THEN Parsed("positive", label, r.score, FALSE)
                  ELSE IF label = "NEGATIVE" /\ aboveHalf(r.score)
                  THEN Parsed("negative", label, r.score, FALSE)
                  ELSE Parsed("neutral", label, r.score, FALSE)
    ELSE DefaultParsed(FALSE)

\* the try block with label and score assigned before the label is
\* upper-cased, as displaySentiment of src/unnamed/part_000 does
parseApiResultAssignFirst(r) ==
    IF r.isArray /\ r.length > 0 /\ r.firstIsArray /\ r.firstLength > 0
       /\ r.dataIsObject /\ truthy(r.label) /\ r.score.type # "undefined"
    THEN IF r.label.type # "string"
         THEN Parsed("neutral", display(r.label), r.score, TRUE)
         ELSE LET label == toUpperCase(r.label.str)
              IN  IF label = "POSITIVE" /\ aboveHalf(r.score)
                  THEN Parsed("positive", label, r.score, FALSE)
                  ELSE IF label = "NEGATIVE" /\ aboveHalf(r.score)
                  THEN Parsed("negative", label, r.score, FALSE)
                  ELSE Parsed("neutral", "NEUTRAL", r.score, FALSE)
    ELSE DefaultParsed(FALSE)

\* the try / catch of processAndDisplayResult: data.label.toUpperCase()
\* throws for a truthy label that is not a string, before label is assigned
parseApiResult(r) ==
    IF r.isArray /\ r.length > 0 /\ r.firstIsArray /\ r.firstLength > 0
       /\ r.dataIsObject /\ truthy(r.label) /\ r.score.type # "undefined"
    THEN IF r.label.type # "string"
         THEN DefaultParsed(TRUE)
         ELSE LET label == toUpperCase(r.label.str)
              IN  IF label = "POSITIVE" /\ aboveHalf(r.score)
                  THEN Parsed("positive", label, r.score, FALSE)
                  ELSE IF label = "NEGATIVE" /\ aboveHalf(r.score)
                  THEN Parsed("negative", label, r.score, FALSE)
                  ELSE Parsed("neutral", "NEUTRAL", r.score, FALSE)
    ELSE DefaultParsed(FALSE)

\* normalizedScore.toFixed(2) is not a function: for POSITIVE the
\* normalized score is the score itself, which must be a number
toFixedThrows(score, label) == label = "POSITIVE" /\ score.type # "number"

\* what updateSentimentDisplay writes into the sentiment element
SentimentDisplay(sentiment, label, score) ==
    [sentiment |-> sentiment, label |-> label, score |-> score]

\* the sentiment element after "sentimentResult.innerHTML = ''"
NoSentimentDisplay == SentimentDisplay("", "", JsUndefined)

\* no response yet
NoApiResult ==
    [isArray |-> FALSE, length |-> 0, firstIsArray |-> FALSE, firstLength |-> 0,
     dataIsObject |-> FALSE, label |-> JsUndefined, score |-> JsUndefined,
     received |-> FALSE]

ApiResult(isArr, len, firstIsArr, firstLen, dataIsObj, label, score) ==
    [isArray |-> isArr, length |-> len, firstIsArray |-> firstIsArr,
     firstLength |-> firstLen, dataIsObject |-> dataIsObj,
     label |-> label, score |-> score, received |-> TRUE]

ApiLabels ==
    { JsUndefined, JsNull, JsStr(""), JsNum(Rat(5, 1)), JsNum(Rat(0, 1)) }
    \cup { JsStr(t) : t \in { "POSITIVE", "NEGATIVE", "NEUTRAL",
                              "positive", "negative", "LABEL_1" } }

ApiScores ==
    { JsUndefined, JsNull, JsStr("0.9"), JsStr("0.3"), JsStr("high") }
    \cup { JsNum(Rat(k, GridDen)) : k \in 0..GridDen }
    \cup { JsNum(Rat(1, 2)), JsNum(Rat(4, 10)), JsNum(Rat(7, 10)), JsNum(Rat(3, 10)),
           JsNum(Rat(6, 10)), JsNum(Rat(9, 10)) }

\* the values response.json() can resolve to
ApiResults ==
    \* {error: "..."}: not an array
    { ApiResult(FALSE, 0, FALSE, 0, FALSE, JsUndefined, JsUndefined),
    \* []
      ApiResult(TRUE, 0, FALSE, 0, FALSE, JsUndefined, JsUndefined),
    \* [{label, score}]: the first element is not an array
      ApiResult(TRUE, 1, FALSE, 0, FALSE, JsStr("POSITIVE"), JsNum(Rat(9, 10))),
    \* [[]]
      ApiResult(TRUE, 1, TRUE, 0, FALSE, JsUndefined, JsUndefined),
    \* [[null]]
      ApiResult(TRUE, 1, TRUE, 1, FALSE, JsUndefined, JsUndefined) }
    \* [[{label, score}]]
    \cup { ApiResult(TRUE, 1, TRUE, 1, TRUE, l, c) : l \in ApiLabels, c \in ApiScores }

(***************************************************************************)
(* Inputs                                                                  *)
(***************************************************************************)
Alphabet == { " ", "good", "poor", "fair", "not", "very", "the", "but", "!", "?" }

BoundedTexts == UNION { [1..n -> Alphabet] : n \in 0..MaxLen }

AmazingText ==
    <<"This", " ", "product", " ", "is", " ", "absolutely", " ", "amazing", "!">>

BatteryText ==
    <<"It", " ", "was", " ", "good", " ", "but", " ", "the", " ", "battery", " ",
      "life", " ", "is", " ", "poor">>

ScenarioTexts ==
    { AmazingText, BatteryText,
      <<"NOT", " ", "Good">>,
      <<"not", ",", " ", "good">>,
      <<"not", " ", "very", " ", "good">>,
      <<"very", " ", "not", " ", "poor">>,
      <<"good", " ", "good", " ", "poor">>,
      <<"poor", " ", "poor", " ", "good", "!", "!">>,
      <<"\t", "\n">>,
      <<"button">>, <<"average">>, <<"well", "-", "made">>,
      <<"BUT", " ", "however", " ", "although", "?", "?">> }

Texts == BoundedTexts \cup ScenarioTexts

Labels == { "POSITIVE", "NEGATIVE", "NEUTRAL" }

Confidences ==
    { Rat(k, GridDen) : k \in 0..GridDen }
    \cup { Rat(3, 10), Rat(4, 10), Rat(6, 10), Rat(7, 10),
           Rat(4000001, 10000000), Rat(2999999, 10000000),
           Rat(5999999, 10000000), Rat(6999999, 10000000) }

sentimentName(label) ==
    CASE label = "POSITIVE" -> "positive"
      [] label = "NEGATIVE" -> "negative"
      [] OTHER              -> "neutral"

Classifications ==
    { [label |-> l, score |-> c, sentiment |-> sentimentName(l)] :
        l \in Labels, c \in Confidences }

\* no classification yet
NoClassification == [label |-> "undefined", score |-> Rat(0, 1), sentiment |-> "undefined"]

(***************************************************************************)
(* The business-action page (src/unnamed/part_001): review loading, the    *)
(* API token, the analyze button, the error element and its timers         *)
(***************************************************************************)
\* String.prototype.trim: drops leading and trailing whitespace
trim(s) ==
    LET kept == { i \in 1..Len(s) : ~IsWhitespace(s[i]) }
    IN  IF kept = {}
        THEN <<>>
        ELSE SubSeq(s, CHOOSE i \in kept : \A j \in kept : i <= j,
                       CHOOSE i \in kept : \A j \in kept : j <= i)

\* the value of a row's text field after Papa.parse with dynamicTyping: a
\* string, a number, or absent when the dataset has no text column
TextCell(t) == [type |-> "string", text |-> t, num |-> 0]
NumberCell(n) == [type |-> "number", text |-> <<>>, num |-> n]
NoCell == [type |-> "undefined", text |-> <<>>, num |-> 0]

\* row && row.text
hasText(cell) ==
    CASE cell.type = "string" -> cell.text # <<>>
      [] cell.type = "number" -> cell.num # 0
      [] OTHER                -> FALSE

\* row.text.toString()
cellToString(cell) ==
    CASE cell.type = "string" -> cell.text
      [] cell.num = 5         -> <<"5">>
      [] cell.num = 42        -> <<"42">>
      [] OTHER                -> <<"0">>

\* text => text.length > 0
nonEmpty(text) == Len(text) > 0

\* the mapped texts of the rows that have one
mappedTexts(data) ==
    LET rows == SelectSeq(data, hasText)
    IN  [i \in 1..Len(rows) |-> trim(cellToString(rows[i]))]

\* the chain without its final filter
loadedReviewsUnfiltered(data) == mappedTexts(data)

\* results.data.filter(...).map(...).filter(...)
loadedReviews(data) == SelectSeq(mappedTexts(data), nonEmpty)

\* useSampleReviews
sampleReviews ==
    << << "This", " ", "product", " ", "is", " ", "absolutely", " ",
          "amazing", "!", " ", "It", " ", "exceeded", " ", "all", " ", "my",
          " ", "expectations", "." >>,
       << "Terrible", " ", "quality", ",", " ", "broke", " ", "after", " ",
          "just", " ", "two", " ", "days", " ", "of", " ", "use", "." >>,
       << "It", "'", "s", " ", "okay", " ", "for", " ", "the", " ", "price",
          " ", "but", " ", "nothing", " ", "special", "." >>,
       << "Excellent", " ", "value", ",", " ", "highly", " ", "recommended",
          " ", "to", " ", "everyone", "." >>,
       << "Very", " ", "disappointed", ",", " ", "doesn", "'", "t", " ",
          "work", " ", "as", " ", "advertised", "." >>,
       << "Fantastic", "!", " ", "The", " ", "best", " ", "purchase", " ",
          "I", "'", "ve", " ", "made", " ", "this", " ", "year", "." >>,
       << "Poor", " ", "customer", " ", "service", " ", "and", " ",
          "product", " ", "quality", "." >>,
       << "Good", " ", "product", " ", "with", " ", "some", " ", "minor",
          " ", "issues", "." >>,
       << "Horrible", " ", "experience", ",", " ", "would", " ", "never",
          " ", "buy", " ", "again", "." >>,
       << "Perfect", " ", "for", " ", "my", " ", "needs", ",", " ", "works",
          " ", "flawlessly", "." >> >>

\* what fetch and Papa.parse can deliver to loadReviews
LoadOutcome(kind, data) == [kind |-> kind, data |-> data]

Datasets ==
    { << NoCell, NoCell >>,
      << TextCell(<<" ", " ">>), TextCell(<<"\t">>), NumberCell(0), TextCell(<<>>) >>,
      << TextCell(<<"good">>) >>,
      << NoCell, TextCell(<<" ", "poor", " ", "fair", "\n">>), TextCell(<<" ">>),
         NumberCell(5) >> }

\* the load has not settled
NoResponse == LoadOutcome("pending", <<>>)

LoadOutcomes ==
    { LoadOutcome("rejected", <<>>), LoadOutcome("httpError", <<>>),
      LoadOutcome("parseThrows", <<>>) }
    \cup { LoadOutcome("parsed", d) : d \in Datasets }

\* error.message of the three failures the catch handler receives
loadErrorMessage(kind) ==
    CASE kind = "rejected"  -> "Failed to load reviews: Failed to fetch. Using sample reviews."
      [] kind = "httpError" -> "Failed to load reviews: HTTP 404: Not Found. Using sample reviews."
      [] OTHER              -> "Failed to load reviews: Papa is not defined. Using sample reviews."

\* the localStorage entry 'hfApiToken': absent, or a value
NoEntry == [has |-> FALSE, value |-> <<>>]
Entry(v) == [has |-> TRUE, value |-> v]

\* what the user can have in the token field
TokenInputs ==
    { <<>>, <<" ">>, <<"hf_abc">>, <<" ", "hf_abc", "\t">>, <<"hf_xyz", " ">> }

\* the entries an earlier visit of the page can have left
StoredEntries == { NoEntry, Entry(<<"hf_abc">>) }

\* loadSavedToken: the token read back when the page starts
loadSavedToken(entry) == IF entry.has /\ entry.value # <<>> THEN entry.value ELSE <<>>

\* saveApiToken that stores the trimmed value even when it is empty
storedAfterSaveNoRemove(value) == Entry(trim(value))

\* saveApiToken: setItem for a non-empty trimmed value, removeItem otherwise
storedAfterSave(value) ==
    IF trim(value) # <<>> THEN Entry(trim(value)) ELSE NoEntry

\* the headers and body of a classification request
Request(token, text) ==
    [authorization |-> IF token # <<>> THEN <<"Bearer", " ">> \o token ELSE <<>>,
     inputs |-> text]

\* one call of analyzeRandomReview that reached its try block: where it
\* waits, the review it sent, and how its two requests have settled so far
Analysis(pos, review, api, log) ==
    [pos |-> pos, review |-> review, api |-> api, log |-> log]

\* the payload logToGoogleSheets posts
AuditRecord(review, label, actionTaken, sentiment) ==
    [review |-> review, sentiment |-> label, action_taken |-> actionTaken,
     sentimentCategory |-> sentiment]

\* a click that leaves the button enabled while its request is pending
disabledWhileAnalyzingOff == FALSE

\* analyzeBtn.disabled = true before the request is sent
disabledWhileAnalyzing == TRUE

\* a finally block that is skipped when the request failed
finallyRunsOnSuccessOnly(failed) == ~failed

\* try / catch / finally of analyzeRandomReview: finally runs either way
finallyRuns(failed) == TRUE

\* logToGoogleSheets without its try / catch
logRejectionUncaught(outcome) == outcome = "rejected"

\* logToGoogleSheets catches the rejection of its fetch
logRejectionEscapes(outcome) == FALSE

\* the responses the classification endpoint is given in a page run
PageApiResults ==
    { ApiResult(TRUE, 1, TRUE, 1, TRUE, JsStr("POSITIVE"), JsNum(Rat(9, 10))),
      ApiResult(TRUE, 1, TRUE, 1, TRUE, JsStr("NEGATIVE"), JsNum(Rat(9, 10))),
      ApiResult(FALSE, 0, FALSE, 0, FALSE, JsUndefined, JsUndefined),
      ApiResult(TRUE, 1, TRUE, 1, TRUE, JsNum(Rat(5, 1)), JsNum(Rat(9, 10))),
      ApiResult(TRUE, 1, TRUE, 1, TRUE, JsStr("POSITIVE"), JsStr("0.9")) }

\* the ways the classification request fails: fetch rejects, the status is
\* not ok, or the body is not JSON
ApiFailures == { "network", "httpError", "badJson" }

apiErrorMessage(kind) ==
    CASE kind = "network"   -> "Analysis failed: Failed to fetch"
      [] kind = "httpError" -> "Analysis failed: API Error: 503 Service Unavailable"
      [] OTHER              -> "Analysis failed: Unexpected token < in JSON at position 0"

\* the page before initApp has read the storage
PageNotLoaded ==
    /\ reviews = <<>>
    /\ loadSettled = FALSE
    /\ tsvResponse = NoResponse
    /\ apiTokenInput = <<>>
    /\ apiToken = <<>>
    /\ localStorage = NoEntry
    /\ analyzeBtnDisabled = FALSE
    /\ loadingShown = FALSE
    /\ errorVisible = FALSE
    /\ errorSeq = 0
    /\ timers = <<>>
    /\ analyses = <<>>
    /\ currentSelectedReview = <<>>
    /\ requests = <<>>
    /\ auditLog = <<>>
    /\ clicks = 0

(***************************************************************************)
(* State machine: a caller either supplies a review text, which is scored  *)
(* and then resolved, or supplies a classification, which is resolved.     *)
(***************************************************************************)
Init ==
    /\ \/ /\ reviewType = "string"
          /\ reviewText \in Texts
          /\ classification = NoClassification
       \/ /\ reviewType \in NonStringTypes
          /\ reviewText = <<>>
          /\ classification = NoClassification
       \/ /\ reviewType = "string"
          /\ reviewText = <<>>
          /\ classification \in Classifications
    /\ positiveScore = 0
    /\ negativeScore = 0
    /\ neutralScore = 0
    /\ decision = NoDecision
    /\ thrown = "none"
    /\ pc = <<>>
    /\ apiResult = NoApiResult
    /\ sentimentDisplay = NoSentimentDisplay
    /\ actionDisplay = NoDecision
    /\ errorMessage = ""
    /\ PageNotLoaded

AnalyzeSentiment ==
    /\ pc = <<>>
    /\ classification = NoClassification
    /\ IF toLowerCaseThrows(reviewType)
       THEN /\ thrown' = "TypeError"
            /\ UNCHANGED <<positiveScore, negativeScore, neutralScore, classification>>
       ELSE /\ LET s == finalScores(reviewText)
               IN  /\ positiveScore' = s.positiveScore
                   /\ negativeScore' = s.negativeScore
                   /\ neutralScore' = s.neutralScore
            /\ classification' = analyzeSentiment(reviewText)
            /\ UNCHANGED thrown
    /\ pc' = Append(pc, "analyzeSentiment")
    /\ UNCHANGED <<reviewType, reviewText, decision>>
    /\ UNCHANGED apiVars
    /\ UNCHANGED pageVars

DetermineBusinessAction ==
    /\ classification # NoClassification
    /\ pc \in { <<>>, <<"analyzeSentiment">> }
    /\ decision' = determineBusinessAction(classification.score, classification.label)
    /\ pc' = Append(pc, "determineBusinessAction")
    /\ UNCHANGED <<reviewType, reviewText, positiveScore, negativeScore,
                   neutralScore, classification, thrown>>
    /\ UNCHANGED apiVars
    /\ UNCHANGED pageVars

Next == AnalyzeSentiment \/ DetermineBusinessAction

Spec == Init /\ [][Next]_vars

(***************************************************************************)
(* State machine of the API-backed analysis: callHuggingFaceAPI resolves   *)
(* to some JSON value, then processAndDisplayResult runs up to its await.  *)
(***************************************************************************)
InitApi ==
    /\ reviewType = "string"
    /\ reviewText = AmazingText
    /\ positiveScore = 0
    /\ negativeScore = 0
    /\ neutralScore = 0
    /\ classification = NoClassification
    /\ decision = NoDecision
    /\ thrown = "none"
    /\ pc = <<>>
    /\ apiResult = NoApiResult
    /\ sentimentDisplay = NoSentimentDisplay
    /\ actionDisplay = NoDecision
    /\ errorMessage = ""
    /\ PageNotLoaded

\* return await response.json()
CallHuggingFaceAPI ==
    /\ pc = <<>>
    /\ \E r \in ApiResults : apiResult' = r
    /\ pc' = Append(pc, "callHuggingFaceAPI")
    /\ UNCHANGED scorerVars
    /\ UNCHANGED <<decision, thrown, sentimentDisplay, actionDisplay, errorMessage>>
    /\ UNCHANGED pageVars

ProcessAndDisplayResult ==
    /\ pc = <<"callHuggingFaceAPI">>
    /\ LET parsed == parseApiResult(apiResult)
       IN  /\ errorMessage' =
                 IF parsed.caught
                 THEN "Could not parse API response. Using default neutral sentiment."
                 ELSE errorMessage
           /\ sentimentDisplay' =
                 SentimentDisplay(parsed.sentiment, parsed.label, parsed.score)
           /\ IF toFixedThrows(parsed.score, parsed.label)
              THEN /\ thrown' = "TypeError"
                   /\ UNCHANGED <<decision, actionDisplay>>
              ELSE /\ decision' =
                         determineBusinessAction(toNumber(parsed.score).num, parsed.label)
                   /\ actionDisplay' = decision'
                   /\ UNCHANGED thrown
    /\ pc' = Append(pc, "processAndDisplayResult")
    /\ UNCHANGED scorerVars
    /\ UNCHANGED apiResult
    /\ UNCHANGED pageVars

NextApi == CallHuggingFaceAPI \/ ProcessAndDisplayResult

SpecApi == InitApi /\ [][NextApi]_vars

\* processAndDisplayResult has run on apiResult
Processed == Len(pc) = 2 /\ pc[2] = "processAndDisplayResult"

(***************************************************************************)
(* State machine of the business-action page (src/unnamed/part_001): the   *)
(* state after initApp, then clicks, token input, timers and the settling  *)
(* of the three kinds of request, in any order.                            *)
(***************************************************************************)
InitUi ==
    /\ reviewType = "string"
    /\ reviewText = <<>>
    /\ positiveScore = 0
    /\ negativeScore = 0
    /\ neutralScore = 0
    /\ classification = NoClassification
    /\ decision = NoDecision
    /\ thrown = "none"
    /\ pc = <<>>
    /\ apiResult = NoApiResult
    /\ sentimentDisplay = NoSentimentDisplay
    /\ actionDisplay = NoDecision
    /\ errorMessage = ""
    /\ reviews = <<>>
    /\ loadSettled = FALSE
    /\ tsvResponse = NoResponse
    /\ localStorage = NoEntry
    /\ apiToken = loadSavedToken(localStorage)
    /\ apiTokenInput = loadSavedToken(localStorage)
    /\ analyzeBtnDisabled = FALSE
    /\ loadingShown = FALSE
    /\ errorVisible = FALSE
    /\ errorSeq = 0
    /\ timers = <<>>
    /\ analyses = <<>>
    /\ currentSelectedReview = <<>>
    /\ requests = <<>>
    /\ auditLog = <<>>
    /\ clicks = 0

\* showError: the message is displayed and one more timer is pending
ShowError(message) ==
    /\ errorMessage' = message
    /\ errorVisible' = TRUE
    /\ errorSeq' = errorSeq + 1
    /\ timers' = Append(timers, errorSeq + 1)

\* try { ... } finally { ... } of analyzeRandomReview for analysis k
Finally(k, failed, api, log) ==
    /\ analyses' = [analyses EXCEPT ![k] = Analysis("done", @.review, api, log)]
    /\ IF finallyRuns(failed)
       THEN loadingShown' = FALSE /\ analyzeBtnDisabled' = FALSE
       ELSE UNCHANGED <<loadingShown, analyzeBtnDisabled>>

\* the two promise handlers of loadReviews
LoadReviewsSettles ==
    /\ ~loadSettled
    /\ loadSettled' = TRUE
    /\ \E o \in LoadOutcomes :
          /\ tsvResponse' = o
          /\ IF o.kind = "parsed"
             THEN IF loadedReviews(o.data) = <<>>
                  THEN /\ ShowError("No reviews found in TSV file. Using sample reviews.")
                       /\ reviews' = sampleReviews
                  ELSE /\ reviews' = loadedReviews(o.data)
                       /\ UNCHANGED <<errorMessage, errorVisible, errorSeq, timers>>
             ELSE /\ ShowError(loadErrorMessage(o.kind))
                  /\ reviews' = sampleReviews
    /\ UNCHANGED scorerVars
    /\ UNCHANGED <<decision, thrown, pc, apiResult, sentimentDisplay, actionDisplay>>
    /\ UNCHANGED <<apiTokenInput, apiToken, localStorage, analyzeBtnDisabled,
                   loadingShown, analyses, currentSelectedReview, requests,
                   auditLog, clicks>>

\* an input event on the token field
SaveApiToken ==
    /\ \E v \in TokenInputs :
          /\ v # apiTokenInput
          /\ apiTokenInput' = v
          /\ apiToken' = trim(v)
          /\ localStorage' = storedAfterSave(v)
    /\ UNCHANGED scorerVars
    /\ UNCHANGED <<decision, thrown, pc>>
    /\ UNCHANGED apiVars
    /\ UNCHANGED <<reviews, loadSettled, tsvResponse, analyzeBtnDisabled, loadingShown,
                   errorVisible, errorSeq, timers, analyses,
                   currentSelectedReview, requests, auditLog, clicks>>

\* a click on the enabled button: analyzeRandomReview up to its first await
AnalyzeRandomReview ==
    /\ ~analyzeBtnDisabled
    /\ clicks < MaxClicks
    /\ clicks' = clicks + 1
    /\ actionDisplay' = NoDecision
    /\ IF Len(reviews) = 0
       THEN /\ ShowError("No reviews available. Please wait for reviews to load.")
            /\ UNCHANGED <<currentSelectedReview, loadingShown, analyzeBtnDisabled,
                           sentimentDisplay, requests, analyses>>
       ELSE /\ \E randomIndex \in 1..Len(reviews) :
                  /\ randomIndex <= MaxPick
                  /\ currentSelectedReview' = reviews[randomIndex]
                  /\ requests' = Append(requests, Request(apiToken, reviews[randomIndex]))
                  /\ analyses' = Append(analyses, Analysis("awaitApi", reviews[randomIndex],
                                                       "pending", "none"))
            /\ loadingShown' = TRUE
            /\ analyzeBtnDisabled' = disabledWhileAnalyzing
            /\ sentimentDisplay' = NoSentimentDisplay
            /\ errorVisible' = FALSE
            /\ UNCHANGED <<errorMessage, errorSeq, timers>>
    /\ UNCHANGED scorerVars
    /\ UNCHANGED <<decision, thrown, pc, apiResult>>
    /\ UNCHANGED <<reviews, loadSettled, tsvResponse, apiTokenInput, apiToken, localStorage, auditLog>>

\* the classification request of analysis k is answered with JSON:
\* processAndDisplayResult up to the await in logToGoogleSheets, or up to
\* the exception that ends it
ApiResolves(k) ==
    /\ analyses[k].pos = "awaitApi"
    /\ \E r \in PageApiResults :
          LET parsed == parseApiResult(r)
              d == determineBusinessAction(toNumber(parsed.score).num, parsed.label)
          IN  /\ apiResult' = r
              /\ sentimentDisplay' =
                    SentimentDisplay(parsed.sentiment, parsed.label, parsed.score)
              /\ IF toFixedThrows(parsed.score, parsed.label)
                 THEN /\ ShowError("Analysis failed: normalizedScore.toFixed is not a function")
                      /\ Finally(k, TRUE, "ok", "none")
                      /\ UNCHANGED <<decision, actionDisplay, auditLog>>
                 ELSE /\ IF parsed.caught
                         THEN ShowError("Could not parse API response. Using default neutral sentiment.")
                         ELSE UNCHANGED <<errorMessage, errorVisible, errorSeq, timers>>
                      /\ decision' = d
                      /\ actionDisplay' = d
                      /\ auditLog' = Append(auditLog,
                            AuditRecord(currentSelectedReview, parsed.label,
                                        d.actionCode, parsed.sentiment))
                      /\ analyses' = [analyses EXCEPT
                            ![k] = Analysis("awaitLog", @.review, "ok", "pending")]
                      /\ UNCHANGED <<loadingShown, analyzeBtnDisabled>>
    /\ UNCHANGED scorerVars
    /\ UNCHANGED <<thrown, pc>>
    /\ UNCHANGED <<reviews, loadSettled, tsvResponse, apiTokenInput, apiToken, localStorage,
                   currentSelectedReview, requests, clicks>>

\* the classification request of analysis k fails: catch, then finally
ApiRejects(k) ==
    /\ analyses[k].pos = "awaitApi"
    /\ \E kind \in ApiFailures : ShowError(apiErrorMessage(kind))
    /\ Finally(k, TRUE, "failed", "none")
    /\ UNCHANGED scorerVars
    /\ UNCHANGED <<decision, thrown, pc, apiResult, sentimentDisplay, actionDisplay>>
    /\ UNCHANGED <<reviews, loadSettled, tsvResponse, apiTokenInput, apiToken, localStorage,
                   currentSelectedReview, requests, auditLog, clicks>>

\* the audit request of analysis k settles: logToGoogleSheets returns,
\* processAndDisplayResult returns, then finally
LogSettles(k) ==
    /\ analyses[k].pos = "awaitLog"
    /\ \E outcome \in {"resolved", "rejected"} :
          IF logRejectionEscapes(outcome)
          THEN /\ ShowError("Analysis failed: Failed to fetch")
               /\ Finally(k, TRUE, "ok", outcome)
          ELSE /\ UNCHANGED <<errorMessage, errorVisible, errorSeq, timers>>
               /\ Finally(k, FALSE, "ok", outcome)
    /\ UNCHANGED scorerVars
    /\ UNCHANGED <<decision, thrown, pc, apiResult, sentimentDisplay, actionDisplay>>
    /\ UNCHANGED <<reviews, loadSettled, tsvResponse, apiTokenInput, apiToken, localStorage,
                   currentSelectedReview, requests, auditLog, clicks>>

\* the oldest pending setTimeout(hideError, 7000) fires
HideErrorTimer ==
    /\ timers # <<>>
    /\ timers' = Tail(timers)
    /\ errorVisible' = FALSE
    /\ UNCHANGED scorerVars
    /\ UNCHANGED <<decision, thrown, pc, apiResult, sentimentDisplay, actionDisplay,
                   errorMessage, errorSeq>>
    /\ UNCHANGED <<reviews, loadSettled, tsvResponse, apiTokenInput, apiToken, localStorage,
                   analyzeBtnDisabled, loadingShown, analyses,
                   currentSelectedReview, requests, auditLog, clicks>>

ApiSettles == \E k \in 1..Len(analyses) : ApiResolves(k) \/ ApiRejects(k)

AuditSettles == \E k \in 1..Len(analyses) : LogSettles(k)

NextUi ==
    \/ LoadReviewsSettles
    \/ AnalyzeRandomReview
    \/ ApiSettles
    \/ AuditSettles
    \/ HideErrorTimer

SpecUi == InitUi /\ [][NextUi]_vars

\* every request that was sent settles
SpecUiFair ==
    SpecUi /\ WF_vars(LoadReviewsSettles) /\ WF_vars(ApiSettles) /\ WF_vars(AuditSettles)

(***************************************************************************)
(* The same page once its reviews are loaded, with the user editing the    *)
(* token field between and during analyses.                                *)
(***************************************************************************)
InitToken ==
    /\ reviewType = "string"
    /\ reviewText = <<>>
    /\ positiveScore = 0
    /\ negativeScore = 0
    /\ neutralScore = 0
    /\ classification = NoClassification
    /\ decision = NoDecision
    /\ thrown = "none"
    /\ pc = <<>>
    /\ apiResult = NoApiResult
    /\ sentimentDisplay = NoSentimentDisplay
    /\ actionDisplay = NoDecision
    /\ errorMessage = ""
    /\ reviews = loadedReviews(<< TextCell(<<"good">>) >>)
    /\ loadSettled = TRUE
    /\ tsvResponse = LoadOutcome("parsed", << TextCell(<<"good">>) >>)
    /\ localStorage \in StoredEntries
    /\ apiToken = loadSavedToken(localStorage)
    /\ apiTokenInput = loadSavedToken(localStorage)
    /\ analyzeBtnDisabled = FALSE
    /\ loadingShown = FALSE
    /\ errorVisible = FALSE
    /\ errorSeq = 0
    /\ timers = <<>>
    /\ analyses = <<>>
    /\ currentSelectedReview = <<>>
    /\ requests = <<>>
    /\ auditLog = <<>>
    /\ clicks = 0

NextToken ==
    \/ SaveApiToken
    \/ AnalyzeRandomReview
    \/ ApiSettles
    \/ AuditSettles
    \/ HideErrorTimer

SpecToken == InitToken /\ [][NextToken]_vars

\* analyzeSentiment has been called on reviewText
Called == Len(pc) >= 1 /\ pc[1] = "analyzeSentiment"

\* the scorer has returned for reviewText
Scored == Called /\ thrown = "none"

\* the resolver has returned for classification
Resolved == Len(pc) >= 1 /\ pc[Len(pc)] = "determineBusinessAction"

(***************************************************************************)
(* Properties                                                              *)
(***************************************************************************)
\* the tokens of reviewText as the loop sees them
words == split(toLowerCase(reviewText))

\* the text is empty or consists of whitespace only
IsBlank(text) == \A i \in 1..Len(text) : IsWhitespace(text[i])

\* C1: for every text the confidence returned by analyzeSentiment lies in
\* the closed interval [0.5, 0.95].
ThmC1 ==
    Scored => /\ RatLe(Rat(1, 2), classification.score)
              /\ RatLe(classification.score, Rat(95, 100))

WitC1 ==
    /\ Scored
    /\ matchCount(reviewText, "!") > 1
    /\ matchCount(reviewText, "?") > 0
    /\ positiveScore > 0

\* C2: determineBusinessAction is total: for every label in {POSITIVE,
\* NEGATIVE, NEUTRAL} and every confidence in [0,1] it returns exactly one
\* of the three decisions and never fails.
ThmC2 ==
    Resolved => /\ decision \in { OfferCoupon, RequestFeedback, AskReferral }
                /\ decision.actionCode \in { "OFFER_COUPON", "REQUEST_FEEDBACK", "ASK_REFERRAL" }
                /\ thrown = "none"

WitC2 ==
    /\ Resolved
    /\ classification.label = "POSITIVE"
    /\ RatEq(classification.score, Rat(7, 10))
    /\ decision = AskReferral

\* C4: for label POSITIVE and confidence c the decision is OFFER_COUPON
\* exactly when c <= 0.4, REQUEST_FEEDBACK exactly when 0.4 < c < 0.7 and
\* ASK_REFERRAL exactly when c >= 0.7.
ThmC4 ==
    (Resolved /\ classification.label = "POSITIVE") =>
        LET c == classification.score
        IN  /\ decision = OfferCoupon <=> RatLe(c, Rat(4, 10))
            /\ decision = RequestFeedback <=> (RatLt(Rat(4, 10), c) /\ RatLt(c, Rat(7, 10)))
            /\ decision = AskReferral <=> RatLe(Rat(7, 10), c)

WitC4 ==
    /\ Resolved
    /\ classification.label = "POSITIVE"
    /\ classification.score = Rat(4, 10)
    /\ decision = OfferCoupon

ThmC6 ==
    (Resolved /\ classification.label = "NEUTRAL") =>
        /\ RatEq(normalizedScore(classification.score, classification.label), Rat(1, 2))
        /\ decision = RequestFeedback

WitC6 ==
    /\ Resolved
    /\ classification.label = "NEUTRAL"
    /\ RatLe(classification.score, Rat(4, 10))
    /\ decision = RequestFeedback

ThmC8 ==
    Scored =>
        /\ \A i \in 2..Len(words) :
              words[i - 1] \in negationWords =>
                /\ cleanWord(words[i]) \in positiveKeywords =>
                      scoreWord(words, i, Scores(0, 0, 0)) = Scores(0, 20, 0)
                /\ cleanWord(words[i]) \in negativeKeywords =>
                      scoreWord(words, i, Scores(0, 0, 0)) = Scores(20, 0, 0)
        /\ reviewText = <<"not", " ", "good">> =>
              /\ positiveScore = 0
              /\ negativeScore = 20
              /\ classification.label = "NEGATIVE"

WitC8 ==
    /\ Scored
    /\ reviewText = <<"not", " ", "good">>
    /\ negativeScore = 20
    /\ classification.label = "NEGATIVE"

\* C9: a positive or negative word whose preceding token is an intensifier
\* contributes 6 instead of 3, a text with exactly one '!' gets no
\* exclamation bonus, and "This product is absolutely amazing!" ends with
\* positiveScore 6, negativeScore 0 and label POSITIVE.
ThmC9 ==
    Scored =>
        /\ \A i \in 2..Len(words) :
              words[i - 1] \in intensifiers =>
                /\ cleanWord(words[i]) \in positiveKeywords =>
                      scoreWord(words, i, Scores(0, 0, 0)) = Scores(60, 0, 0)
                /\ cleanWord(words[i]) \in negativeKeywords =>
                      scoreWord(words, i, Scores(0, 0, 0)) = Scores(0, 60, 0)
        /\ matchCount(reviewText, "!") = 1 =>
              /\ positiveScore = loopScores(reviewText).positiveScore
              /\ negativeScore = loopScores(reviewText).negativeScore
        /\ reviewText = AmazingText =>
              /\ positiveScore = 60
              /\ negativeScore = 0
              /\ classification.label = "POSITIVE"

WitC9 ==
    /\ Scored
    /\ reviewText = AmazingText
    /\ positiveScore = 60
    /\ classification.label = "POSITIVE"

\* C10: the label is NEUTRAL whenever neutralScore is the maximum of the
\* three scores or |positiveScore - negativeScore| < 2, otherwise POSITIVE
\* when positiveScore is the maximum and NEGATIVE in every remaining case;
\* "It was good but the battery life is poor" is NEUTRAL.
ThmC10 ==
    Scored =>
        /\ classification.label =
              IF \/ (neutralScore >= positiveScore /\ neutralScore >= negativeScore)
                 \/ Abs(positiveScore - negativeScore) < 20
              THEN "NEUTRAL"
              ELSE IF positiveScore >= negativeScore /\ positiveScore >= neutralScore
              THEN "POSITIVE"
              ELSE "NEGATIVE"
        /\ reviewText = BatteryText => classification.label = "NEUTRAL"

WitC10 ==
    /\ Scored
    /\ reviewText = BatteryText
    /\ positiveScore > neutralScore
    /\ classification.label = "NEUTRAL"

\* C11 as stated: a token that hits only the neutral word set adds 0.1 to
\* neutralScore and leaves positiveScore and negativeScore unchanged,
\* whatever the preceding token is.
CexC11 ==
    Scored =>
        \A i \in 1..Len(words) :
            (/\ cleanWord(words[i]) \in neutralKeywords
             /\ cleanWord(words[i]) \notin positiveKeywords \cup negativeKeywords)
            => scoreWord(words, i, Scores(0, 0, 0)) = Scores(0, 0, 1)

\* some contrast word occurs in the text, in any letter case
HasContrast(text) ==
    \E i \in 1..Len(text) :
        lowerAtom(text[i]) \in { "but", "button", "however", "although" }

\* C12: the exclamation bonus is applied at most once: with more than one
\* '!' exactly 2 goes to positiveScore if it leads, exactly 2 to
\* negativeScore if it leads, nothing on a tie; never to both, never
\* changing the leader; with zero or one '!' neither score changes.
ThmC12 ==
    Scored =>
        LET l == loopScores(reviewText)
            p == l.positiveScore
            n == l.negativeScore
        IN  /\ (matchCount(reviewText, "!") > 1 /\ p > n) =>
                   positiveScore = p + 20 /\ negativeScore = n
            /\ (matchCount(reviewText, "!") > 1 /\ n > p) =>
                   negativeScore = n + 20 /\ positiveScore = p
            /\ (matchCount(reviewText, "!") > 1 /\ n = p) =>
                   negativeScore = n /\ positiveScore = p
            /\ matchCount(reviewText, "!") <= 1 =>
                   negativeScore = n /\ positiveScore = p
            /\ positiveScore = p \/ negativeScore = n
            /\ (p > n <=> positiveScore > negativeScore)
            /\ (n > p <=> negativeScore > positiveScore)

WitC12 ==
    /\ Scored
    /\ matchCount(reviewText, "!") > 2
    /\ negativeScore > positiveScore
    /\ negativeScore = loopScores(reviewText).negativeScore + 20

\* C13: the question-mark and the contrast-word adjustments are each applied
\* at most once: neutralScore gains exactly 1 for one or more '?' and
\* exactly 1 for one or more contrast words, in any letter case.
ThmC13 ==
    Scored =>
        neutralScore = loopScores(reviewText).neutralScore
                       + (IF matchCount(reviewText, "?") >= 1 THEN 10 ELSE 0)
                       + (IF HasContrast(reviewText) THEN 10 ELSE 0)

WitC13 ==
    /\ Scored
    /\ matchCount(reviewText, "?") > 1
    /\ Cardinality({ lowerAtom(reviewText[i]) : i \in 1..Len(reviewText) }
                   \cap { "but", "however", "although" }) > 1
    /\ neutralScore = loopScores(reviewText).neutralScore + 20

\* C14: on a non-string input the scorer ends in an error surfaced to its
\* caller and never returns a classification; on every string input it
\* returns a classification and never an error.
ThmC14 ==
    Called =>
        IF reviewType = "string"
        THEN /\ thrown = "none"
             /\ classification # NoClassification
             /\ classification.label \in Labels
        ELSE /\ thrown = "TypeError"
             /\ classification = NoClassification
             /\ decision = NoDecision

WitC14 ==
    /\ Called
    /\ reviewType = "number"
    /\ thrown = "TypeError"
    /\ classification = NoClassification

\* the dictionary lookup with the neutral set consulted first
dictionaryScoreNeutralFirst(word, negated) ==
    IF word \in neutralKeywords THEN 5
    ELSE IF word \in positiveKeywords THEN (IF negated THEN -20 ELSE 30)
    ELSE IF word \in negativeKeywords THEN (IF negated THEN 20 ELSE -30)
    ELSE 0

\* C15 as stated: the positive, negative and neutral word sets are pairwise
\* disjoint, so no token's contribution depends on the lookup order
\* positive, negative, neutral.
CexC15 ==
    Scored =>
        \A i \in 1..Len(words) :
            LET w == cleanWord(words[i])
            IN  /\ ~(w \in positiveKeywords /\ w \in negativeKeywords)
                /\ ~(w \in positiveKeywords /\ w \in neutralKeywords)
                /\ ~(w \in negativeKeywords /\ w \in neutralKeywords)
                /\ dictionaryScore(w, isNegated(words, i))
                     = dictionaryScoreNeutralFirst(w, isNegated(words, i))

\* C16: in the pipeline text -> scorer -> resolver the action is determined
\* by the scorer's label: POSITIVE gives ASK_REFERRAL, NEGATIVE gives
\* OFFER_COUPON and NEUTRAL gives REQUEST_FEEDBACK.
ThmC16 ==
    (Scored /\ Resolved) =>
        decision = CASE classification.label = "POSITIVE" -> AskReferral
                     [] classification.label = "NEGATIVE" -> OfferCoupon
                     [] OTHER                             -> RequestFeedback

WitC16 ==
    /\ Scored
    /\ Resolved
    /\ classification.label = "NEGATIVE"
    /\ positiveScore > 0
    /\ decision = OfferCoupon

\* C17: the final clamp never changes the value: a NEUTRAL confidence is
\* strictly above 0.5 and at most 0.8, a POSITIVE or NEGATIVE confidence is
\* strictly above 0.7 and strictly below 0.9.
ThmC17 ==
    Scored =>
        LET c == classification.score
        IN  /\ c = rawConfidence(Scores(positiveScore, negativeScore, neutralScore),
                                 classification.sentiment)
            /\ classification.label = "NEUTRAL" =>
                  RatLt(Rat(5, 10), c) /\ RatLe(c, Rat(8, 10))
            /\ classification.label \in { "POSITIVE", "NEGATIVE" } =>
                  RatLt(Rat(7, 10), c) /\ RatLt(c, Rat(9, 10))

WitC17 ==
    /\ Scored
    /\ classification.label = "POSITIVE"
    /\ RatLt(Rat(85, 100), classification.score)

\* C18: positiveScore and negativeScore are never negative, neutralScore
\* never drops below its baseline 1, so totalScore is at least 1 and the
\* confidence is a defined number (no division by zero).
ThmC18 ==
    Scored =>
        /\ positiveScore >= 0
        /\ negativeScore >= 0
        /\ neutralScore >= 10
        /\ positiveScore + negativeScore + neutralScore >= 10
        /\ classification.score.den > 0

WitC18 ==
    /\ Scored
    /\ IsBlank(reviewText)
    /\ Len(reviewText) > 0
    /\ positiveScore + negativeScore + neutralScore = 12

\* the first entry carries a string label and a score:
\* "data && data.label && data.score !== undefined" with an upper-casable label
ExpectedShape(r) ==
    /\ r.isArray /\ r.length > 0 /\ r.firstIsArray /\ r.firstLength > 0
    /\ r.dataIsObject
    /\ r.label.type = "string" /\ r.label.str # ""
    /\ r.score.type # "undefined"

\* not an array, an empty array, a first element that is not a non-empty
\* array, a first entry without label or score, or a label that is not a string
UnexpectedShape(r) ==
    \/ ~r.isArray
    \/ r.length = 0
    \/ ~r.firstIsArray
    \/ r.firstLength = 0
    \/ ~r.dataIsObject
    \/ r.label.type = "undefined"
    \/ r.score.type = "undefined"
    \/ r.label.type \in {"number", "null"}

\* C19: in processAndDisplayResult a POSITIVE or NEGATIVE API label whose
\* score is not above 0.5 is relabelled NEUTRAL before the resolver runs (the
\* resolver then answers REQUEST_FEEDBACK), and what the page shows is
\* consistent: sentiment positive never with OFFER_COUPON, sentiment negative
\* never with ASK_REFERRAL, sentiment neutral always with REQUEST_FEEDBACK.
ThmC19 ==
    /\ ( /\ Processed
         /\ ExpectedShape(apiResult)
         /\ toUpperCase(apiResult.label.str) \in {"POSITIVE", "NEGATIVE"}
         /\ ~aboveHalf(apiResult.score) )
       => /\ sentimentDisplay.label = "NEUTRAL"
          /\ decision = RequestFeedback
    /\ sentimentDisplay.sentiment = "positive" => actionDisplay # OfferCoupon
    /\ sentimentDisplay.sentiment = "negative" => actionDisplay # AskReferral
    /\ sentimentDisplay.sentiment = "neutral" => actionDisplay = RequestFeedback

\* a NEGATIVE label with score 0.3, which the resolver would otherwise
\* normalise to 0.7, is shown as NEUTRAL with REQUEST_FEEDBACK
WitC19 ==
    /\ Processed
    /\ ExpectedShape(apiResult)
    /\ apiResult.label = JsStr("negative")
    /\ apiResult.score = JsNum(Rat(3, 10))
    /\ sentimentDisplay = SentimentDisplay("neutral", "NEUTRAL", JsNum(Rat(3, 10)))
    /\ actionDisplay = RequestFeedback

\* C20: an API result of unexpected shape (not an array, empty array, first
\* element not a non-empty array, first entry missing label or score, or a
\* label that cannot be upper-cased) never aborts processAndDisplayResult:
\* it shows sentiment neutral, label NEUTRAL, score 0.5 and resolves
\* REQUEST_FEEDBACK.
ThmC20 ==
    (Processed /\ UnexpectedShape(apiResult))
    => /\ thrown = "none"
       /\ sentimentDisplay = SentimentDisplay("neutral", "NEUTRAL", JsNum(Rat(1, 2)))
       /\ decision = RequestFeedback
       /\ actionDisplay = RequestFeedback

\* a numeric label makes toUpperCase throw; the catch block reports it and
\* the defaults are shown
WitC20 ==
    /\ Processed
    /\ apiResult = ApiResult(TRUE, 1, TRUE, 1, TRUE, JsNum(Rat(5, 1)), JsNum(Rat(9, 10)))
    /\ errorMessage = "Could not parse API response. Using default neutral sentiment."
    /\ sentimentDisplay.label = "NEUTRAL"
    /\ actionDisplay = RequestFeedback

\* the analyses that have sent their request and not yet reached the end of
\* their finally block
InFlight == { k \in 1..Len(analyses) : analyses[k].pos # "done" }

\* C21: at most one analysis is in flight at any time, and while one is in
\* flight the analyze button is disabled (so no click can start another).
ThmC21 ==
    /\ Cardinality(InFlight) <= 1
    /\ InFlight # {} => analyzeBtnDisabled

\* a second analysis is pending after the first one has finished
WitC21 ==
    /\ Len(analyses) = 2
    /\ analyses[1].pos = "done"
    /\ analyses[2].pos = "awaitApi"
    /\ analyzeBtnDisabled

\* C22: whenever no analysis is in flight the loading indicator is hidden,
\* and, the pending requests settling, a disabled button with the indicator
\* shown is always followed by an enabled button with the indicator hidden,
\* whether the classification request succeeded or failed.
ThmC22 ==
    /\ [](InFlight = {} => ~loadingShown)
    /\ (analyzeBtnDisabled /\ loadingShown) ~> (~analyzeBtnDisabled /\ ~loadingShown)

\* an analysis whose classification request failed has ended with the
\* button enabled and the indicator hidden
WitC22 ==
    /\ \E k \in 1..Len(analyses) : analyses[k].pos = "done" /\ analyses[k].api = "failed"
    /\ InFlight = {}
    /\ ~analyzeBtnDisabled
    /\ ~loadingShown

\* C23: an error message stays visible until its own auto-hide timer fires
\* or a new analysis is started: when a timer hides a visible message, it is
\* the timer started for that message (the latest showError call), never
\* the timer of an earlier error.
CexC23 ==
    [][ ( /\ timers # <<>>
          /\ timers' = Tail(timers)
          /\ errorVisible
          /\ ~errorVisible' )
        => Head(timers) = errorSeq ]_vars

\* the analyses whose classification request was answered with JSON
ApiSucceeded == { k \in 1..Len(analyses) : analyses[k].api = "ok" }

\* C24: every analysis whose API call succeeded has sent exactly one audit
\* record; while its audit request is pending, the sentiment and the
\* decision are on display, and the last record holds the review that was
\* classified and the actionCode of the displayed decision.
CexC24 ==
    /\ Len(auditLog) = Cardinality(ApiSucceeded)
    /\ \A k \in 1..Len(analyses) :
          analyses[k].pos = "awaitLog"
          => /\ sentimentDisplay # NoSentimentDisplay
             /\ actionDisplay # NoDecision
             /\ auditLog[Len(auditLog)].review = analyses[k].review
             /\ auditLog[Len(auditLog)].action_taken = actionDisplay.actionCode

\* C25: when the audit-log request of an analysis is rejected, no error is
\* shown (the error element, its text and its timers stay as they were),
\* the displayed sentiment and action stay unchanged, and the analyze button
\* is re-enabled with the loading indicator hidden.
ThmC25 ==
    [][ \A k \in 1..Len(analyses) :
          (analyses[k].log = "pending" /\ analyses'[k].log = "rejected")
          => /\ UNCHANGED <<errorVisible, errorMessage, errorSeq, timers>>
             /\ UNCHANGED <<sentimentDisplay, actionDisplay>>
             /\ ~analyzeBtnDisabled'
             /\ ~loadingShown' ]_vars

\* an analysis has ended after its audit request was rejected: the result is
\* on display, no error was ever shown, the button is enabled
WitC25 ==
    /\ \E k \in 1..Len(analyses) : analyses[k].pos = "done" /\ analyses[k].log = "rejected"
    /\ InFlight = {}
    /\ errorSeq = 0
    /\ actionDisplay = AskReferral
    /\ sentimentDisplay.sentiment = "positive"
    /\ ~analyzeBtnDisabled

\* no row of the dataset has a text that survives trimming
NoUsableText(data) ==
    \A i \in 1..Len(data) :
       \/ data[i].type = "undefined"
       \/ data[i].type = "number" /\ data[i].num = 0
       \/ data[i].type = "string" /\ \A j \in 1..Len(data[i].text) : IsWhitespace(data[i].text[j])

\* C26: once loadReviews has settled, the review list is non-empty and holds
\* only strings that are non-empty after trimming; after a failed fetch, a
\* failed parse or a dataset with no usable text it is the 10 sample
\* reviews; before the load settles a click reports 'No reviews available'
\* and no request is sent.
ThmC26 ==
    /\ loadSettled
       => /\ Len(reviews) > 0
          /\ \A i \in 1..Len(reviews) : trim(reviews[i]) # <<>>
          /\ (tsvResponse.kind # "parsed" \/ NoUsableText(tsvResponse.data))
             => (reviews = sampleReviews /\ Len(reviews) = 10)
    /\ ~loadSettled
       => /\ requests = <<>>
          /\ analyses = <<>>
          /\ clicks > 0
             => ( /\ errorSeq = clicks
                  /\ errorMessage = "No reviews available. Please wait for reviews to load." )

\* a dataset with an absent, a padded, a blank and a numeric text has loaded
\* as the two trimmed texts, after one click that came too early
WitC26 ==
    /\ loadSettled
    /\ tsvResponse.kind = "parsed"
    /\ reviews = << <<"poor", " ", "fair">>, <<"5">> >>
    /\ clicks = 1
    /\ requests = <<>>
    /\ errorMessage = "No reviews available. Please wait for reviews to load."

\* the stored token entry and the in-memory token agree
TokenAgrees ==
    /\ localStorage.has <=> apiToken # <<>>
    /\ localStorage.has => localStorage.value = apiToken
    /\ trim(apiToken) = apiToken
    /\ apiToken = trim(apiTokenInput)

\* C27: after initialization and after any token-input events, the entry
\* 'hfApiToken' exists exactly when apiToken is non-empty and then holds the
\* same trimmed value; a classification request carries an Authorization
\* header exactly when apiToken is non-empty at the time it is sent, and the
\* header is then 'Bearer ' followed by apiToken.
ThmC27 ==
    /\ []TokenAgrees
    /\ [][ Len(requests') > Len(requests)
           => LET sent == requests'[Len(requests')]
              IN  /\ sent.authorization # <<>> <=> apiToken # <<>>
                  /\ apiToken # <<>> => sent.authorization = <<"Bearer", " ">> \o apiToken ]_vars

\* the field holds a padded token, the trimmed token is stored, and a
\* request carrying it has been sent after an earlier request without header
WitC27 ==
    /\ apiTokenInput = <<"hf_xyz", " ">>
    /\ localStorage = Entry(<<"hf_xyz">>)
    /\ Len(requests) = 2
    /\ requests[1].authorization = <<>>
    /\ requests[2].authorization = <<"Bearer", " ", "hf_xyz">>

====
